---------------------------- MODULE Spec2Model ----------------------------
(***************************************************************************)
(* Model of homeassistant/components/onewire/sensor.py: discovery of       *)
(* 1-Wire sensors through owserver (proxy) or the sysbus (direct) and the  *)
(* polling of the sensor entities that discovery creates.                  *)
(*                                                                         *)
(* Python values are records [t, v]: t is the Python type ("None",         *)
(* "float", "int", "bool", "str") and v the value.  A float is kept as an  *)
(* integer number of thousandths (23.456 is 23456), a str as a record      *)
(* [pad, body]: pad leading blanks followed by body.                       *)
(***************************************************************************)
EXTENDS Integers, Sequences, FiniteSets, TLC

(***************************************************************************)
(* Bounds of the model.                                                    *)
(***************************************************************************)
\* Longest device listing explored by SpecDiscovery.
MaxDevices == 2
\* Number of update() calls started in one behaviour of Spec.
MaxPolls == 2

(***************************************************************************)
(* Catalogs (module-level constants of sensor.py).  A dict is a sequence   *)
(* of <<key, value>> pairs in insertion order.                             *)
(***************************************************************************)
DEVICE_SENSORS ==
    << <<"10", << <<"temperature", "temperature">> >> >>,
       <<"12", << <<"temperature", "TAI8570/temperature">>,
                  <<"pressure", "TAI8570/pressure">> >> >>,
       <<"22", << <<"temperature", "temperature">> >> >>,
       <<"26", << <<"temperature", "temperature">>,
                  <<"humidity", "humidity">>,
                  <<"humidity_hih3600", "HIH3600/humidity">>,
                  <<"humidity_hih4000", "HIH4000/humidity">>,
                  <<"humidity_hih5030", "HIH5030/humidity">>,
                  <<"humidity_htm1735", "HTM1735/humidity">>,
                  <<"pressure", "B1-R1-A/pressure">>,
                  <<"illuminance", "S3-R1-A/illuminance">>,
                  <<"voltage_VAD", "VAD">>,
                  <<"voltage_VDD", "VDD">>,
                  <<"current", "IAD">> >> >>,
       <<"28", << <<"temperature", "temperature">> >> >>,
       <<"3B", << <<"temperature", "temperature">> >> >>,
       <<"42", << <<"temperature", "temperature">> >> >>,
       <<"1D", << <<"counter_a", "counter.A">>,
                  <<"counter_b", "counter.B">> >> >>,
       <<"EF", << <<"HobbyBoard", "special">> >> >> >>

DEVICE_SUPPORT_SYSBUS == <<"10", "22", "28", "3B", "42">>

HOBBYBOARD_EF ==
    << <<"HobbyBoards_EF", << <<"humidity", "humidity/humidity_corrected">>,
                              <<"humidity_raw", "humidity/humidity_raw">>,
                              <<"temperature", "humidity/temperature">> >> >>,
       <<"HB_MOISTURE_METER", << <<"moisture_0", "moisture/sensor.0">>,
                                 <<"moisture_1", "moisture/sensor.1">>,
                                 <<"moisture_2", "moisture/sensor.2">>,
                                 <<"moisture_3", "moisture/sensor.3">> >> >> >>

SENSOR_TYPES ==
    << <<"temperature", <<"temperature", "TEMP_CELSIUS", "DEVICE_CLASS_TEMPERATURE">> >>,
       <<"humidity", <<"humidity", "PERCENTAGE", "DEVICE_CLASS_HUMIDITY">> >>,
       <<"humidity_hih3600", <<"humidity", "PERCENTAGE", "DEVICE_CLASS_HUMIDITY">> >>,
       <<"humidity_hih4000", <<"humidity", "PERCENTAGE", "DEVICE_CLASS_HUMIDITY">> >>,
       <<"humidity_hih5030", <<"humidity", "PERCENTAGE", "DEVICE_CLASS_HUMIDITY">> >>,
       <<"humidity_htm1735", <<"humidity", "PERCENTAGE", "DEVICE_CLASS_HUMIDITY">> >>,
       <<"humidity_raw", <<"humidity", "PERCENTAGE", "DEVICE_CLASS_HUMIDITY">> >>,
       <<"pressure", <<"pressure", "PRESSURE_MBAR", "DEVICE_CLASS_PRESSURE">> >>,
       <<"illuminance", <<"illuminance", "LIGHT_LUX", "DEVICE_CLASS_ILLUMINANCE">> >>,
       <<"wetness_0", <<"wetness", "PERCENTAGE", "DEVICE_CLASS_HUMIDITY">> >>,
       <<"wetness_1", <<"wetness", "PERCENTAGE", "DEVICE_CLASS_HUMIDITY">> >>,
       <<"wetness_2", <<"wetness", "PERCENTAGE", "DEVICE_CLASS_HUMIDITY">> >>,
       <<"wetness_3", <<"wetness", "PERCENTAGE", "DEVICE_CLASS_HUMIDITY">> >>,
       <<"moisture_0", <<"moisture", "PRESSURE_CBAR", "DEVICE_CLASS_PRESSURE">> >>,
       <<"moisture_1", <<"moisture", "PRESSURE_CBAR", "DEVICE_CLASS_PRESSURE">> >>,
       <<"moisture_2", <<"moisture", "PRESSURE_CBAR", "DEVICE_CLASS_PRESSURE">> >>,
       <<"moisture_3", <<"moisture", "PRESSURE_CBAR", "DEVICE_CLASS_PRESSURE">> >>,
       <<"counter_a", <<"counter", "count", "None">> >>,
       <<"counter_b", <<"counter", "count", "None">> >>,
       <<"HobbyBoard", <<"none", "none", "None">> >>,
       <<"voltage", <<"voltage", "VOLT", "DEVICE_CLASS_VOLTAGE">> >>,
       <<"voltage_VAD", <<"voltage", "VOLT", "DEVICE_CLASS_VOLTAGE">> >>,
       <<"voltage_VDD", <<"voltage", "VOLT", "DEVICE_CLASS_VOLTAGE">> >>,
       <<"current", <<"current", "ELECTRICAL_CURRENT_AMPERE", "DEVICE_CLASS_CURRENT">> >> >>

(***************************************************************************)
(* Dict operations: membership (key in d), lookup (d[key]) and items().    *)
(***************************************************************************)
Keys(d) == {d[i][1] : i \in 1..Len(d)}

HasKey(d, key) == \E i \in 1..Len(d) : d[i][1] = key

Get(d, key) == d[CHOOSE i \in 1..Len(d) : d[i][1] = key][2]

InList(x, l) == \E i \in 1..Len(l) : l[i] = x

\* Mutant: the standard catalog is used for every device type.
hb_info_standard_only(dev_type) == DEVICE_SENSORS

\* hb_info_from_type: the catalog for a device type.
hb_info_from_type(dev_type) ==
    IF dev_type = "std" THEN DEVICE_SENSORS ELSE HOBBYBOARD_EF


(***************************************************************************)
(* Python values and the string/number conversions the code applies.       *)
(***************************************************************************)
PyNone == [t |-> "None", v |-> 0]

PyFalse == [t |-> "bool", v |-> 0]

PyFloat(m) == [t |-> "float", v |-> m]

PyInt(n) == [t |-> "int", v |-> n]

PyStr(pad, body) == [t |-> "str", v |-> [pad |-> pad, body |-> body]]

\* The outcome of evaluating an expression that raises.
Raised(exc) == [t |-> "raise", v |-> exc]

\* Marker for an owproxy call that raises a pyownet protocol.Error.
OwError == "protocol.Error"

\* str.lstrip(): the leading blanks are removed.
LStrip(s) == PyStr(0, s.v.body)

\* Truthiness of a value (if value_read:).
Truthy(x) ==
    CASE x.t = "None" -> FALSE
      [] x.t = "bool" -> x.v # 0
      [] x.t = "str" -> x.v.pad + Len(x.v.body) > 0
      [] x.t = "float" -> x.v # 0
      [] OTHER -> x.v # 0

\* The decimal literals the readers of the model return, in thousandths.
DECIMALS ==
    << <<"23.456", 23456>>, <<"7.96", 7960>>, <<"12.25", 12250>>,
       <<"7.0", 7000>>, <<"-0.75", -750>> >>

\* float(s): leading blanks are accepted; text that is no number raises ValueError.
ToFloat(s) ==
    IF s.t = "float" THEN s
    ELSE IF HasKey(DECIMALS, s.v.body) THEN PyFloat(Get(DECIMALS, s.v.body))
    ELSE Raised("ValueError")

\* Mutant: the value is cut to one decimal place instead of rounded.
Round1Down(x) == PyFloat((x.v \div 100) * 100)

\* round(x, 1) on thousandths: to the nearest tenth, an exact tie to the even
\* tenth.  (Every tie among DECIMALS is exact in binary: .25 and .75.)
Round1(x) ==
    LET q == x.v \div 100
        r == x.v % 100
    IN  PyFloat(IF r < 50 THEN q * 100
                ELSE IF r > 50 THEN (q + 1) * 100
                ELSE IF q % 2 = 0 THEN q * 100 ELSE (q + 1) * 100)

\* int(x): truncation toward zero; int(None) raises TypeError.
ToInt(x) ==
    IF x.t = "None" THEN Raised("TypeError")
    ELSE PyInt(IF x.v >= 0 THEN x.v \div 1000 ELSE -((-x.v) \div 1000))

\* int(s) of the is_leaf attribute text.
LeafInt(s) == IF s = "0" THEN 0 ELSE 1

\* str.capitalize() of the sensor types.
CAPITALIZED ==
    << <<"temperature", "Temperature">>, <<"humidity", "Humidity">>,
       <<"humidity_hih3600", "Humidity_hih3600">>,
       <<"humidity_hih4000", "Humidity_hih4000">>,
       <<"humidity_hih5030", "Humidity_hih5030">>,
       <<"humidity_htm1735", "Humidity_htm1735">>,
       <<"humidity_raw", "Humidity_raw">>, <<"pressure", "Pressure">>,
       <<"illuminance", "Illuminance">>,
       <<"wetness_0", "Wetness_0">>, <<"wetness_1", "Wetness_1">>,
       <<"wetness_2", "Wetness_2">>, <<"wetness_3", "Wetness_3">>,
       <<"moisture_0", "Moisture_0">>, <<"moisture_1", "Moisture_1">>,
       <<"moisture_2", "Moisture_2">>, <<"moisture_3", "Moisture_3">>,
       <<"counter_a", "Counter_a">>, <<"counter_b", "Counter_b">>,
       <<"HobbyBoard", "Hobbyboard">>, <<"voltage", "Voltage">>,
       <<"voltage_VAD", "Voltage_vad">>, <<"voltage_VDD", "Voltage_vdd">>,
       <<"current", "Current">> >>

Capitalize(s) == IF HasKey(CAPITALIZED, s) THEN Get(CAPITALIZED, s) ELSE s

\* sensor_key.split("_") of the catalog keys that hold an underscore.
SPLIT_KEYS ==
    << <<"humidity_hih3600", <<"humidity", "hih3600">> >>,
       <<"humidity_hih4000", <<"humidity", "hih4000">> >>,
       <<"humidity_hih5030", <<"humidity", "hih5030">> >>,
       <<"humidity_htm1735", <<"humidity", "htm1735">> >>,
       <<"humidity_raw", <<"humidity", "raw">> >>,
       <<"voltage_VAD", <<"voltage", "VAD">> >>,
       <<"voltage_VDD", <<"voltage", "VDD">> >>,
       <<"counter_a", <<"counter", "a">> >>,
       <<"counter_b", <<"counter", "b">> >>,
       <<"moisture_0", <<"moisture", "0">> >>,
       <<"moisture_1", <<"moisture", "1">> >>,
       <<"moisture_2", <<"moisture", "2">> >>,
       <<"moisture_3", <<"moisture", "3">> >> >>

Split(key) == IF HasKey(SPLIT_KEYS, key) THEN Get(SPLIT_KEYS, key) ELSE <<key>>

\* "moisture" in sensor_key
ContainsMoisture(key) == InList("moisture", Split(key))

\* "EF" in family, for the two-character family codes owserver returns.
ContainsEF(family) == family = "EF"

\* "count" in unit: of the units of SENSOR_TYPES only "count" holds it.
ContainsCount(unit) == unit = "count"

\* device_names.get(sensor_id, sensor_id)
NameOf(device_names, sensor_id) ==
    IF HasKey(device_names, sensor_id) THEN Get(device_names, sensor_id)
    ELSE sensor_id

(***************************************************************************)
(* State.                                                                  *)
(***************************************************************************)
VARIABLES
    pc,        \* get_entities: "idle", "returned" or "raised"
    config,    \* the config entry: [type, names]
    devices,   \* the devices the backend enumerated (paths or sensor ids)
    entities,  \* the sensor entities get_entities returned
    created,   \* per entity, the arguments it was constructed with
    seen,      \* per device get_entities reached, what the backend answered
    log,       \* the messages get_entities logged, in order
    owreads,   \* attribute path -> number of owproxy.read calls by get_entities
    upd,       \* per entity, the position and locals of its update() call
    poll,      \* per entity, the history of its latest update() call
    polls      \* number of update() calls started

vars == <<pc, config, devices, entities, created, seen, log, owreads, upd, poll, polls>>

(***************************************************************************)
(* OneWire.__init__ and the properties the entity host reads.              *)
(***************************************************************************)
\* OneWire.__init__ (also reached through OneWireProxy/OneWireDirect.__init__).
OneWireInit(class, name, device_file, sensor_type, device_info) ==
    [class |-> class,
     name |-> name \o " " \o Capitalize(sensor_type),
     device_file |-> device_file,
     device_class |-> Get(SENSOR_TYPES, sensor_type)[3],
     unit_of_measurement |-> Get(SENSOR_TYPES, sensor_type)[2],
     device_info |-> device_info,
     state |-> PyNone,
     value_raw |-> PyNone]

\* Mutant: the state is returned as stored, also for a count.
StateAsStored(e) == e.state

\* OneWire.state
State(e) ==
    IF ContainsCount(e.unit_of_measurement) THEN ToInt(e.state) ELSE e.state

\* OneWire.device_state_attributes
DeviceStateAttributes(e) ==
    [device_file |-> e.device_file, raw_value |-> e.value_raw]

\* The attributes __init__ sets and update() never assigns.
Identity(e) ==
    [class |-> e.class, name |-> e.name, device_file |-> e.device_file,
     device_class |-> e.device_class,
     unit_of_measurement |-> e.unit_of_measurement,
     device_info |-> e.device_info]

(***************************************************************************)
(* get_entities, owserver branch.  A device of the listing is              *)
(* [path, dir, id]: the entry dir() returned, os.path.split(path)[0] and   *)
(* os.path.split(dir)[1].  What owserver answers for it is                 *)
(* [family, type, leaf]: the text of the family and type attributes and    *)
(* of moisture/is_leaf.N (leaf["N"]), or OwError where the read raises.    *)
(***************************************************************************)
\* The sensor ids of the moisture channels (sensor_key.split("_")[1]).
SIdSeq == <<"0", "1", "2", "3">>

SIds == {SIdSeq[i] : i \in 1..Len(SIdSeq)}

\* No is_leaf attribute was read.
NoLeaf == [s \in SIds |-> "unread"]

Device(id) == [path |-> "/" \o id \o "/", dir |-> "/" \o id, id |-> id]

DeviceIds == <<"A", "B", "C", "D">>

Bump(f, path) ==
    IF path \in DOMAIN f THEN [f EXCEPT ![path] = @ + 1] ELSE f @@ (path :> 1)

\* The accumulator of the discovery loops.
Acc0 ==
    [outcome |-> "ok", cause |-> "", entities |-> <<>>, created |-> <<>>,
     seen |-> <<>>, log |-> <<>>, owreads |-> <<>>]

\* Mutant: the answer of the is_leaf query is ignored.
LeafRemapIgnored(sensor_key, answer) ==
    IF answer = OwError THEN Raised(OwError) ELSE PyStr(0, sensor_key)

\* Mutant: the remapped key is misspelt.
LeafRemapMisspelt(sensor_key, answer) ==
    IF answer = OwError THEN Raised(OwError)
    ELSE IF LeafInt(answer) # 0 THEN PyStr(0, "wetness" \o Split(sensor_key)[2])
    ELSE PyStr(0, sensor_key)

\* The is_leaf query of a moisture channel (lines 212-220): the sensor key the
\* entity is created with, or a raise.
LeafRemap(sensor_key, answer) ==
    IF answer = OwError THEN Raised(OwError)
    ELSE IF LeafInt(answer) # 0 THEN PyStr(0, "wetness_" \o Split(sensor_key)[2])
    ELSE PyStr(0, sensor_key)

\* The loop over the channels of one device (lines 211-230).
RECURSIVE ProxyChannels(_, _, _, _, _, _)
ProxyChannels(items, k, device, answer, ctx, acc) ==
    IF k > Len(items) \/ acc.outcome # "ok" THEN acc
    ELSE
      LET sensor_key == items[k][1]
          sensor_value == items[k][2]
          moist == ContainsMoisture(sensor_key)
          s_id == Split(sensor_key)[2]
          leafpath == device.path \o "moisture/is_leaf." \o s_id
          remap == IF moist THEN LeafRemap(sensor_key, answer.leaf[s_id])
                   ELSE PyStr(0, sensor_key)
          reads == IF moist THEN Bump(acc.owreads, leafpath) ELSE acc.owreads
          device_file == device.dir \o "/" \o sensor_value
      IN  IF remap.t = "raise"
          THEN [acc EXCEPT !.outcome = "raise", !.cause = "is_leaf",
                           !.owreads = reads]
          ELSE IF ~HasKey(SENSOR_TYPES, remap.v.body)
          THEN [acc EXCEPT !.outcome = "raise", !.cause = "KeyError",
                           !.owreads = reads]
          ELSE ProxyChannels(items, k + 1, device, answer, ctx,
                 [acc EXCEPT
                    !.owreads = reads,
                    !.entities = Append(@,
                        OneWireInit("OneWireProxy",
                                    NameOf(ctx.names, device.id), device_file,
                                    remap.v.body, ctx.device_info)),
                    !.created = Append(@,
                        [device |-> ctx.index, key |-> sensor_key,
                         sensor_type |-> remap.v.body,
                         leaf |-> IF moist THEN answer.leaf[s_id] ELSE "unread"])])

\* One iteration of the loop over the devices (lines 189-230).
ProxyDevice(device, answer, names, index, acc) ==
    LET r1 == Bump(acc.owreads, device.path \o "family")
        r2 == Bump(r1, device.path \o "type")
        dev_type == IF ContainsEF(answer.family) THEN "HobbyBoard" ELSE "std"
        family == IF ContainsEF(answer.family) THEN answer.type ELSE answer.family
        device_info == [identifiers |-> {<<"onewire", device.id>>},
                        manufacturer |-> "Maxim Integrated",
                        model |-> answer.type, name |-> device.id]
        note(o) == [family |-> answer.family, type |-> answer.type,
                    leaf |-> answer.leaf, outcome |-> o]
    IN  IF answer.family = OwError
        THEN [acc EXCEPT !.outcome = "raise", !.cause = "family", !.owreads = r1,
                         !.seen = Append(@, note("raise"))]
        ELSE IF answer.type = OwError
        THEN [acc EXCEPT !.outcome = "raise", !.cause = "type", !.owreads = r2,
                         !.seen = Append(@, note("raise"))]
        ELSE IF ~HasKey(hb_info_from_type(dev_type), family)
        THEN [acc EXCEPT !.owreads = r2,
                         !.seen = Append(@, note("skip")),
                         !.log = Append(@, [level |-> "warning",
                                            msg |-> "Ignoring unknown family",
                                            family |-> family,
                                            device |-> device.path])]
        ELSE LET done == ProxyChannels(Get(hb_info_from_type(dev_type), family),
                                       1, device, answer,
                                       [names |-> names, index |-> index,
                                        device_info |-> device_info],
                                       [acc EXCEPT !.owreads = r2])
             IN  [done EXCEPT !.seen = Append(@,
                     note(IF done.outcome = "ok" THEN "ok" ELSE "raise"))]

\* for device in devices (line 188)
RECURSIVE ProxyLoop(_, _, _, _)
ProxyLoop(answers, names, index, acc) ==
    IF index > Len(answers) \/ acc.outcome # "ok" THEN acc
    ELSE ProxyLoop(answers, names, index + 1,
                   ProxyDevice(Device(DeviceIds[index]), answers[index], names,
                               index, acc))

(***************************************************************************)
(* get_entities, sysbus branch.  A sensor found by Pi1Wire is its          *)
(* mac_address as [family, serial]: mac_address[:2] and mac_address[2:].   *)
(***************************************************************************)
SysbusSensor(p1sensor, names, index, acc) ==
    LET family == p1sensor.family
        sensor_id == family \o "-" \o p1sensor.serial
        device_info == [identifiers |-> {<<"onewire", sensor_id>>},
                        manufacturer |-> "Maxim Integrated",
                        model |-> family, name |-> sensor_id]
        device_file == "/sys/bus/w1/devices/" \o sensor_id \o "/w1_slave"
        note(o) == [family |-> family, type |-> "unread", leaf |-> NoLeaf,
                    outcome |-> o]
    IN  IF ~InList(family, DEVICE_SUPPORT_SYSBUS)
        THEN [acc EXCEPT !.seen = Append(@, note("skip")),
                         !.log = Append(@, [level |-> "warning",
                                            msg |-> "Ignoring unknown family",
                                            family |-> family,
                                            device |-> sensor_id])]
        ELSE [acc EXCEPT
                !.seen = Append(@, note("ok")),
                !.entities = Append(@,
                    OneWireInit("OneWireDirect", NameOf(names, sensor_id),
                                device_file, "temperature", device_info)),
                !.created = Append(@,
                    [device |-> index, key |-> "temperature",
                     sensor_type |-> "temperature", leaf |-> "unread"])]

RECURSIVE SysbusLoop(_, _, _, _)
SysbusLoop(sensors, names, index, acc) ==
    IF index > Len(sensors) THEN acc
    ELSE SysbusLoop(sensors, names, index + 1,
                    SysbusSensor(sensors[index], names, index, acc))

\* Mutant: the diagnostic is logged when the scan found no device at all.
NoDeviceFound(acc) ==
    IF Len(acc.seen) = 0
    THEN [acc EXCEPT !.log = Append(@, [level |-> "error",
                                        msg |-> "No onewire sensor found",
                                        family |-> "", device |-> ""])]
    ELSE acc

\* if not entities: _LOGGER.error("No onewire sensor found...") (lines 263-268)
NoSensorFound(acc) ==
    IF Len(acc.entities) = 0
    THEN [acc EXCEPT !.log = Append(@, [level |-> "error",
                                        msg |-> "No onewire sensor found",
                                        family |-> "", device |-> ""])]
    ELSE acc

(***************************************************************************)
(* The inputs of get_entities.                                             *)
(***************************************************************************)
\* config[CONF_NAMES]
NameConfigs == { << <<"A", "Kitchen">> >> }

\* Answers to the four is_leaf queries, keyed by sensor id.  The queries
\* after a failed one are never issued, so their answers are fixed to OwError.
LeafAnswers ==
    LET seqs == {l \in [1..Len(SIdSeq) -> {"0", "1", OwError}] :
                    \A i, j \in 1..Len(SIdSeq) :
                        (i < j /\ l[i] = OwError) => l[j] = OwError}
    IN  {[s \in SIds |-> l[CHOOSE i \in 1..Len(SIdSeq) : SIdSeq[i] = s]] :
            l \in seqs}

FamilyAnswers == {"28", "1D", "12", "EF", "99"}

TypeAnswers == {"HB_MOISTURE_METER", "HobbyBoards_EF", "DS18B20"}

\* What owserver may answer for one device.  Attributes that get_entities
\* does not read for the device are "unread".
ProxyAnswers ==
    {[family |-> OwError, type |-> "unread", leaf |-> NoLeaf]}
    \cup {[family |-> f, type |-> OwError, leaf |-> NoLeaf] : f \in FamilyAnswers}
    \cup {[family |-> f, type |-> "DS18B20", leaf |-> NoLeaf] :
            f \in FamilyAnswers \ {"EF"}}
    \cup {[family |-> "EF", type |-> t, leaf |-> NoLeaf] :
            t \in TypeAnswers \ {"HB_MOISTURE_METER"}}
    \cup {[family |-> "EF", type |-> "HB_MOISTURE_METER", leaf |-> l] :
            l \in LeafAnswers}

\* The listings of at most n devices.
Listings(n, answers) == UNION {[1..k -> answers] : k \in 0..n}

\* mac_address[:2] of the sensors the bus scan may find, and mac_address[2:]
\* of the sensor found at each position.
SysbusFamilies == {"28", "10", "26", "99"}

Serials == <<"0000aaaa", "0000bbbb", "0000cccc", "0000dddd">>

\* The installations whose entities Spec polls.
Leafs(a, b, c, d) == [s \in SIds |-> <<a, b, c, d>>[CHOOSE i \in 1..4 : SIdSeq[i] = s]]

PolledOwserver ==
    { << [family |-> "28", type |-> "DS18B20", leaf |-> NoLeaf] >>,
      << [family |-> "1D", type |-> "DS18B20", leaf |-> NoLeaf] >>,
      << [family |-> "99", type |-> "DS18B20", leaf |-> NoLeaf],
         [family |-> "28", type |-> "DS18B20", leaf |-> NoLeaf] >>,
      << [family |-> "EF", type |-> "HB_MOISTURE_METER",
          leaf |-> Leafs("1", "0", "1", "0")] >>,
      << [family |-> "EF", type |-> "HB_MOISTURE_METER",
          leaf |-> Leafs("0", "1", "0", "1")] >> }

PolledSysbus == { <<"28">>, <<"28", "10">> }

(***************************************************************************)
(* get_entities (lines 167-302), one action per backend.                   *)
(***************************************************************************)
Idle == [pc |-> "idle", value_read |-> PyFalse, value |-> PyNone]

NoPoll == [answer |-> PyNone, outcome |-> "none", raw_before |-> PyNone, reads |-> 0]

Return(listing, result) ==
    \E acc \in {result} :
    /\ devices' = listing
    /\ pc' = IF acc.outcome = "ok" THEN "returned" ELSE "raised"
    /\ entities' = IF acc.outcome = "ok" THEN acc.entities ELSE <<>>
    /\ created' = IF acc.outcome = "ok" THEN acc.created ELSE <<>>
    /\ seen' = acc.seen
    /\ log' = IF acc.cause = "" THEN acc.log
              ELSE Append(acc.log, [level |-> "raise", msg |-> acc.cause,
                                    family |-> "", device |-> ""])
    /\ owreads' = acc.owreads
    /\ upd' = [i \in 1..Len(entities') |-> Idle]
    /\ poll' = [i \in 1..Len(entities') |-> NoPoll]
    /\ UNCHANGED polls

\* conf_type == CONF_TYPE_OWSERVER (lines 177-230).  dir is the outcome of
\* owproxy.dir(): "ok" or the pyownet exception it raises.
GetEntitiesOwserver(names, dir, answers) ==
    /\ pc = "idle"
    /\ config' = [type |-> "owserver", names |-> names]
    /\ CASE dir = "OwnetError" ->
              Return(<<>>, [Acc0 EXCEPT !.log = <<[level |-> "error",
                                             msg |-> "Failed to list devices",
                                             family |-> "", device |-> ""]>>])
         [] dir = "ConnError" ->
              Return(<<>>, [Acc0 EXCEPT !.outcome = "raise", !.cause = "dir"])
         [] OTHER -> Return([i \in 1..Len(answers) |-> Device(DeviceIds[i]).path],
                            ProxyLoop(answers, names, 1, Acc0))

\* conf_type == CONF_TYPE_SYSBUS (lines 233-268)
GetEntitiesSysbus(names, families) ==
    /\ pc = "idle"
    /\ config' = [type |-> "sysbus", names |-> names]
    /\ LET sensors == [i \in 1..Len(families) |->
                          [family |-> families[i], serial |-> Serials[i]]]
       IN  Return([i \in 1..Len(sensors) |->
                      sensors[i].family \o sensors[i].serial],
                  NoSensorFound(SysbusLoop(sensors, names, 1, Acc0)))

(***************************************************************************)
(* update() of an entity.  Its statements are separate steps, so that the  *)
(* updates of different entities interleave.                               *)
(***************************************************************************)
\* What owproxy.read(device_file).decode() may give an update.
ProxyReads ==
    {Raised(OwError), PyStr(0, "23.456"), PyStr(0, "7.96"), PyStr(2, "12.25"),
     PyStr(0, "7.0"), PyStr(0, "abc"), PyStr(0, ""), PyStr(3, "")}

\* What owsensor.get_temperature() may give an update.
DirectReads ==
    {Raised("FileNotFoundError"), Raised("InvalidCRCException"),
     Raised("UnsupportResponseException"),
     PyFloat(23456), PyFloat(12250), PyFloat(-750)}

CanStart(i, class) ==
    /\ pc = "returned"
    /\ i \in 1..Len(entities)
    /\ entities[i].class = class
    /\ upd[i].pc = "idle"
    /\ polls < MaxPolls

\* OneWireProxy._read_value_ownet (line 366)
ReadValueOwnet(answer) == IF answer.t = "raise" THEN answer ELSE LStrip(answer)

\* OneWireProxy.update, lines 370-375: the read.
ProxyUpdateRead(i, answer) ==
    /\ CanStart(i, "OneWireProxy")
    /\ LET got == ReadValueOwnet(answer)
       IN  upd' = [upd EXCEPT ![i] =
                     [pc |-> "read",
                      value_read |-> IF got.t = "raise" THEN PyFalse ELSE got,
                      value |-> PyNone]]
    /\ poll' = [poll EXCEPT ![i] =
                  [answer |-> answer, outcome |-> "running",
                   raw_before |-> entities[i].value_raw, reads |-> 1]]
    /\ polls' = polls + 1
    /\ UNCHANGED <<pc, config, devices, entities, created, seen, log, owreads>>

\* OneWireProxy.update, lines 376-378: parse, round and keep the raw value.
ProxyUpdateParse(i) ==
    /\ i \in 1..Len(entities)
    /\ upd[i].pc = "read"
    /\ LET value_read == upd[i].value_read
           parsed == ToFloat(value_read)
       IN  IF ~Truthy(value_read)
           THEN /\ upd' = [upd EXCEPT ![i].pc = "store"]
                /\ UNCHANGED <<entities, poll>>
           ELSE IF parsed.t = "raise"
           THEN /\ upd' = [upd EXCEPT ![i] = Idle]
                /\ poll' = [poll EXCEPT ![i].outcome = parsed.v]
                /\ UNCHANGED entities
           ELSE /\ upd' = [upd EXCEPT ![i].pc = "store",
                                      ![i].value = Round1(parsed)]
                /\ entities' = [entities EXCEPT ![i].value_raw = parsed]
                /\ UNCHANGED poll
    /\ UNCHANGED <<pc, config, devices, created, seen, log, owreads, polls>>

\* OneWireDirect.update, lines 393-402: read, keep the raw value, round.
DirectUpdateRead(i, answer) ==
    /\ CanStart(i, "OneWireDirect")
    /\ IF answer.t = "raise"
       THEN /\ upd' = [upd EXCEPT ![i] = [Idle EXCEPT !.pc = "store"]]
            /\ UNCHANGED entities
       ELSE /\ entities' = [entities EXCEPT ![i].value_raw = answer]
            /\ upd' = [upd EXCEPT ![i] =
                         [Idle EXCEPT !.pc = "store",
                                      !.value = Round1(ToFloat(answer))]]
    /\ poll' = [poll EXCEPT ![i] =
                  [answer |-> answer, outcome |-> "running",
                   raw_before |-> entities[i].value_raw, reads |-> 1]]
    /\ polls' = polls + 1
    /\ UNCHANGED <<pc, config, devices, created, seen, log, owreads>>

\* Mutant: the value is stored into every entity of the same device.
UpdateStoreShared(i) ==
    /\ i \in 1..Len(entities)
    /\ upd[i].pc = "store"
    /\ entities' = [j \in 1..Len(entities) |->
                      IF created[j].device = created[i].device
                      THEN [entities[j] EXCEPT !.state = upd[i].value]
                      ELSE entities[j]]
    /\ upd' = [upd EXCEPT ![i] = Idle]
    /\ poll' = [poll EXCEPT ![i].outcome = "returned"]
    /\ UNCHANGED <<pc, config, devices, created, seen, log, owreads, polls>>

\* self._state = value (lines 380 and 403)
UpdateStore(i) ==
    /\ i \in 1..Len(entities)
    /\ upd[i].pc = "store"
    /\ entities' = [entities EXCEPT ![i].state = upd[i].value]
    /\ upd' = [upd EXCEPT ![i] = Idle]
    /\ poll' = [poll EXCEPT ![i].outcome = "returned"]
    /\ UNCHANGED <<pc, config, devices, created, seen, log, owreads, polls>>

(***************************************************************************)
(* Specifications.                                                         *)
(***************************************************************************)
Init ==
    /\ pc = "idle"
    /\ config = [type |-> "", names |-> <<>>]
    /\ devices = <<>>
    /\ entities = <<>>
    /\ created = <<>>
    /\ seen = <<>>
    /\ log = <<>>
    /\ owreads = <<>>
    /\ upd = <<>>
    /\ poll = <<>>
    /\ polls = 0

DiscoverOwserver ==
    /\ pc = "idle"
    /\ \E names \in NameConfigs, dir \in {"ok", "OwnetError", "ConnError"} :
         \E answers \in (IF dir = "ok" THEN Listings(MaxDevices, ProxyAnswers)
                         ELSE {<<>>}) :
             GetEntitiesOwserver(names, dir, answers)

DiscoverSysbus ==
    /\ pc = "idle"
    /\ \E names \in NameConfigs :
         \E families \in Listings(MaxDevices, SysbusFamilies) :
             GetEntitiesSysbus(names, families)

SetUpOwserver ==
    \E names \in NameConfigs, answers \in PolledOwserver :
        GetEntitiesOwserver(names, "ok", answers)

SetUpSysbus ==
    \E names \in NameConfigs, families \in PolledSysbus :
        GetEntitiesSysbus(names, families)

ProxyRead ==
    \E i \in 1..Len(entities), answer \in ProxyReads : ProxyUpdateRead(i, answer)

ProxyParse == \E i \in 1..Len(entities) : ProxyUpdateParse(i)

DirectRead ==
    \E i \in 1..Len(entities), answer \in DirectReads : DirectUpdateRead(i, answer)

Store == \E i \in 1..Len(entities) : UpdateStore(i)

NextDiscovery == DiscoverOwserver \/ DiscoverSysbus

\* Discovery alone, over every listing of at most MaxDevices devices.
SpecDiscovery == Init /\ [][NextDiscovery]_vars

Next ==
    \/ SetUpOwserver
    \/ SetUpSysbus
    \/ ProxyRead
    \/ ProxyParse
    \/ DirectRead
    \/ Store

\* Discovery of one of the polled installations, then updates of its entities.
Spec == Init /\ [][Next]_vars

(***************************************************************************)
(* Vocabulary of the properties.                                           *)
(***************************************************************************)
\* Entity i has completed an update() call and has none in progress.
Polled(i) ==
    /\ pc = "returned"
    /\ i \in 1..Len(entities)
    /\ upd[i].pc = "idle"
    /\ poll[i].outcome # "none"

\* The value the reader of the latest update() of entity i delivered, when it
\* delivered a valid number.
Reading(i) ==
    IF poll[i].answer.t = "str" THEN ToFloat(LStrip(poll[i].answer))
    ELSE poll[i].answer

\* The reader of the latest update() of entity i failed: it raised, or the
\* text it returned is not a valid number.
ReaderFailed(i) == Reading(i).t # "float"

IsCount(e) == e.unit_of_measurement = "count"

\* s is x rounded to one decimal place: a whole number of tenths nearest to x.
IsTenthOf(s, x) ==
    /\ s.t = "float" /\ x.t = "float"
    /\ s.v % 100 = 0
    /\ s.v - x.v <= 50 /\ x.v - s.v <= 50

\* n is x truncated to an integer.
IsTruncOf(n, x) ==
    /\ n.t = "int" /\ x.t = "float"
    /\ IF x.v >= 0 THEN n.v * 1000 <= x.v /\ x.v < (n.v + 1) * 1000
       ELSE (n.v - 1) * 1000 < x.v /\ x.v <= n.v * 1000

Logged(level, msg) ==
    \E m \in 1..Len(log) : log[m].level = level /\ log[m].msg = msg

\* The resolved family of device k is in the catalog its backend uses.
KnownFamily(k) ==
    IF config.type = "sysbus" THEN InList(seen[k].family, DEVICE_SUPPORT_SYSBUS)
    ELSE IF seen[k].family = "EF" THEN seen[k].type \in Keys(HOBBYBOARD_EF)
    ELSE seen[k].family \in Keys(DEVICE_SENSORS)

\* Reading an attribute of device k failed.
ReadFailed(k) ==
    \/ seen[k].family = OwError
    \/ seen[k].type = OwError
    \/ \E s \in SIds : seen[k].leaf[s] = OwError

EntitiesOf(k) == {i \in 1..Len(created) : created[i].device = k}

(***************************************************************************)
(* C1: whenever the reader of an update() fails (it raises, or its text is *)
(* not a valid number), update() returns without raising and the state     *)
(* read from the entity is None: for proxy and direct entities, for every  *)
(* channel, after any earlier polls.                                       *)
(***************************************************************************)
C1_FailedReadGivesNone ==
    \A i \in 1..Len(entities) :
        (Polled(i) /\ ReaderFailed(i)) =>
            /\ poll[i].outcome = "returned"
            /\ State(entities[i]) = PyNone

(***************************************************************************)
(* C2: an unknown family never aborts discovery.  A device whose resolved  *)
(* family is not in the catalog is skipped with a warning, the devices     *)
(* after it are processed, and get_entities returns entities for exactly   *)
(* the devices of a known family.                                          *)
(***************************************************************************)
C2_UnknownFamilySkipped ==
    /\ \A k \in 1..Len(seen) :
          (~ReadFailed(k) /\ ~KnownFamily(k)) =>
              /\ seen[k].outcome = "skip"
              /\ EntitiesOf(k) = {}
              /\ (k < Len(seen) \/ pc = "returned")
    /\ pc = "raised" =>
          \/ Logged("raise", "dir")
          \/ Len(seen) > 0 /\ ReadFailed(Len(seen))
    /\ pc = "returned" /\ ~Logged("error", "Failed to list devices") =>
          /\ Len(seen) = Len(devices)
          /\ \A k \in 1..Len(seen) : KnownFamily(k) <=> EntitiesOf(k) # {}
          /\ Len(entities) = Len(created)
          /\ Cardinality({m \in 1..Len(log) : log[m].level = "warning"})
               = Cardinality({k \in 1..Len(seen) : ~KnownFamily(k)})

\* Discovery returned the entities of the known device that follows an
\* unknown one.
C2_Witness ==
    /\ pc = "returned"
    /\ \E k \in 1..Len(seen) :
          /\ ~KnownFamily(k)
          /\ k < Len(seen)
          /\ KnownFamily(k + 1)
          /\ EntitiesOf(k + 1) # {}

(***************************************************************************)
(* C3: when reading the family, type or is_leaf attribute of one device    *)
(* fails during proxy discovery, get_entities does not raise (and so       *)
(* returns the entities of the other devices).                             *)
(***************************************************************************)
C3_ReadErrorContained ==
    (\E k \in 1..Len(seen) : ReadFailed(k)) => pc = "returned"

(***************************************************************************)
(* C4 as claimed: in sysbus discovery "No onewire sensor found" is logged  *)
(* if and only if the bus scan enumerates zero devices, and get_entities   *)
(* returns normally.                                                       *)
(***************************************************************************)
C4_DiagnosticIffNoDevices ==
    (pc # "idle" /\ config.type = "sysbus") =>
        /\ pc = "returned"
        /\ Logged("error", "No onewire sensor found") <=> Len(devices) = 0

(***************************************************************************)
(* C4 as amended: in sysbus discovery "No onewire sensor found" is logged  *)
(* if and only if get_entities returns no entity, that is if and only if   *)
(* no enumerated device has a supported family; get_entities returns       *)
(* normally in every case, and the owserver branch never logs it.          *)
(***************************************************************************)
C4_DiagnosticIffNoEntities ==
    /\ (pc # "idle" /\ config.type = "sysbus") =>
          /\ pc = "returned"
          /\ Len(seen) = Len(devices)
          /\ Logged("error", "No onewire sensor found") <=> Len(entities) = 0
          /\ Len(entities) = 0 <=> \A k \in 1..Len(seen) : ~KnownFamily(k)
    /\ config.type # "sysbus" => ~Logged("error", "No onewire sensor found")

\* The scan found devices, none of a supported family: the diagnostic is logged.
C4_Witness ==
    /\ pc = "returned"
    /\ config.type = "sysbus"
    /\ Len(devices) > 0
    /\ Logged("error", "No onewire sensor found")

(***************************************************************************)
(* C5: for every moisture_N channel of a moisture-meter board, when the    *)
(* is_leaf.N query answers leaf the entity is created as wetness_N with    *)
(* the percentage unit and the humidity class, otherwise as moisture_N     *)
(* with the moisture unit and the pressure class.  The query is issued     *)
(* once per channel by discovery, and updates never change the choice.     *)
(***************************************************************************)
C5_MoistureRemap ==
    \A i \in 1..Len(entities) :
        ContainsMoisture(created[i].key) =>
            LET k == created[i].device
                n == Split(created[i].key)[2]
                e == entities[i]
                id == DeviceIds[k]
            IN  /\ seen[k].leaf[n] \in {"0", "1"}
                /\ owreads["/" \o id \o "/moisture/is_leaf." \o n] = 1
                /\ seen[k].leaf[n] = "1" =>
                      /\ created[i].sensor_type = "wetness_" \o n
                      /\ e.name = NameOf(config.names, id) \o " Wetness_" \o n
                      /\ e.unit_of_measurement = "PERCENTAGE"
                      /\ e.device_class = "DEVICE_CLASS_HUMIDITY"
                /\ seen[k].leaf[n] = "0" =>
                      /\ created[i].sensor_type = "moisture_" \o n
                      /\ e.name = NameOf(config.names, id) \o " Moisture_" \o n
                      /\ e.unit_of_measurement = "PRESSURE_CBAR"
                      /\ e.device_class = "DEVICE_CLASS_PRESSURE"
                /\ e.device_file = "/" \o id \o "/moisture/sensor." \o n

\* A board with a leaf and a non-leaf channel, both polled successfully since.
C5_Witness ==
    \E i, j \in 1..Len(entities) :
        /\ created[i].sensor_type = "wetness_0"
        /\ created[j].sensor_type = "moisture_1"
        /\ created[i].device = created[j].device
        /\ Polled(i) /\ entities[i].state.t = "float"
        /\ Polled(j) /\ entities[j].state.t = "float"

(***************************************************************************)
(* C6 as claimed: for an entity whose unit is a count, after a successful  *)
(* poll the state is the parsed raw value truncated to an integer, for     *)
(* every parsed value.                                                     *)
(***************************************************************************)
C6_CountIsTruncatedReading ==
    \A i \in 1..Len(entities) :
        (Polled(i) /\ ~ReaderFailed(i) /\ IsCount(entities[i])) =>
            IsTruncOf(State(entities[i]), Reading(i))

(***************************************************************************)
(* C6 as amended: for an entity whose unit is a count, after a successful  *)
(* poll the state is an integer: the parsed raw value first rounded to one *)
(* decimal place and then truncated (7.0 gives 7, 7.96 gives 8).           *)
(***************************************************************************)
C6_CountIsTruncatedRounding ==
    \A i \in 1..Len(entities) :
        (Polled(i) /\ ~ReaderFailed(i) /\ IsCount(entities[i])) =>
            \E s \in {PyFloat(t * 100) : t \in -10..300} :
                /\ IsTenthOf(s, Reading(i))
                /\ IsTruncOf(State(entities[i]), s)

\* A counter polled with a reading whose rounding crosses an integer.
C6_Witness ==
    \E i \in 1..Len(entities) :
        /\ Polled(i) /\ IsCount(entities[i])
        /\ Reading(i) = PyFloat(7960)
        /\ State(entities[i]) = PyInt(8)

(***************************************************************************)
(* C7: every family of the device catalogs has a non-empty channel list,   *)
(* and every channel name discovery passes to an entity (the catalog's     *)
(* names and the wetness_N names of the leaf remap) is in SENSOR_TYPES, so *)
(* that constructing an entity never fails on the unit lookup.             *)
(***************************************************************************)
C7_CatalogConsistent ==
    /\ \A catalog \in {DEVICE_SENSORS, HOBBYBOARD_EF} :
          \A f \in 1..Len(catalog) :
              /\ Len(catalog[f][2]) > 0
              /\ \A c \in 1..Len(catalog[f][2]) :
                    LET key == catalog[f][2][c][1]
                    IN  /\ key \in Keys(SENSOR_TYPES)
                        /\ ContainsMoisture(key) =>
                              ("wetness_" \o Split(key)[2]) \in Keys(SENSOR_TYPES)
    /\ ~Logged("raise", "KeyError")
    /\ \A i \in 1..Len(created) :
          /\ created[i].sensor_type \in Keys(SENSOR_TYPES)
          /\ entities[i].unit_of_measurement
               = Get(SENSOR_TYPES, created[i].sensor_type)[2]
          /\ entities[i].device_class
               = Get(SENSOR_TYPES, created[i].sensor_type)[3]

\* Entities of remapped, catalog and count channels were constructed.
C7_Witness ==
    /\ pc = "returned"
    /\ \E i, j \in 1..Len(created) :
          /\ created[i].sensor_type = "wetness_3"
          /\ created[j].sensor_type = "counter_b"
          /\ entities[j].unit_of_measurement = "count"

(***************************************************************************)
(* C8: after a successful poll of an entity whose unit is not a count, the *)
(* state is the parsed reading rounded to one decimal place and raw_value  *)
(* is the unrounded parsed reading (23.456 gives 23.5 and 23.456), both    *)
(* from the single read of that poll.                                      *)
(***************************************************************************)
C8_RoundTrip ==
    \A i \in 1..Len(entities) :
        (Polled(i) /\ ~ReaderFailed(i) /\ ~IsCount(entities[i])) =>
            /\ poll[i].outcome = "returned"
            /\ poll[i].reads = 1
            /\ DeviceStateAttributes(entities[i]).raw_value = Reading(i)
            /\ IsTenthOf(State(entities[i]), Reading(i))
            /\ Reading(i) = PyFloat(12250) => State(entities[i]) = PyFloat(12200)
            /\ Reading(i) = PyFloat(-750) => State(entities[i]) = PyFloat(-800)

\* The poll of the specification's example.
C8_Witness ==
    \E i \in 1..Len(entities) :
        /\ Polled(i)
        /\ poll[i].answer = PyStr(0, "23.456")
        /\ State(entities[i]) = PyFloat(23500)
        /\ DeviceStateAttributes(entities[i]).raw_value = PyFloat(23456)

(***************************************************************************)
(* C9: a step of the update of one entity changes only that entity's state *)
(* and raw value.  Name, unit, device class, device file and device info   *)
(* of every entity keep their values, and the state and raw value of an    *)
(* entity change only in a step of its own update, however the updates     *)
(* interleave.                                                             *)
(***************************************************************************)
C9_UpdateFrame ==
    [][\A i \in 1..Len(entities) :
          /\ Len(entities') = Len(entities)
          /\ Identity(entities'[i]) = Identity(entities[i])
          /\ upd'[i].pc = upd[i].pc =>
                /\ entities'[i].state = entities[i].state
                /\ entities'[i].value_raw = entities[i].value_raw]_vars

\* One entity holds a reading while the update of another is in progress.
C9_Witness ==
    \E i, j \in 1..Len(entities) :
        /\ i # j
        /\ Polled(i) /\ entities[i].state.t = "float"
        /\ upd[j].pc = "store" /\ upd[j].value.t = "float"
        /\ entities[j].state = PyNone

(***************************************************************************)
(* C10: after any sequence of polls the state reflects only the most       *)
(* recent poll: it is None whenever that poll failed, never a value of an  *)
(* earlier poll.  A failed poll leaves raw_value as it was before the      *)
(* poll.                                                                   *)
(***************************************************************************)
C10_StateIsLatestPoll ==
    \A i \in 1..Len(entities) :
        Polled(i) =>
            /\ ReaderFailed(i) =>
                  /\ State(entities[i]) = PyNone
                  /\ entities[i].value_raw = poll[i].raw_before
            /\ ~ReaderFailed(i) =>
                  /\ entities[i].value_raw = Reading(i)
                  /\ IsTenthOf(entities[i].state, Reading(i))

=============================================================================
